---- MODULE Spec2Model ----
(***************************************************************************)
(* Model of Carambolage's frame loop, src/game/mod.rs: Game::new,          *)
(* Game::run, Game::process_events, Game::process_input.                   *)
(*                                                                         *)
(* pc names the statement of Game::run that executes next.  Every call     *)
(* that run makes in its loop body is one action; process_events and       *)
(* process_input are each one action covering the whole handler.           *)
(* FrameLimiter, FrameBuffer, Shader, Scene and Controller live in other   *)
(* modules of the crate (util, grphx, game::scene, game::controller);      *)
(* what the loop needs of them is modelled from their documented contract. *)
(***************************************************************************)
EXTENDS Integers, Sequences, FiniteSets, TLC

\* ---------------------------------------------------------------- bounds
\* Framebuffer dimensions reported by the window system range over 0..MaxDim
\* (GLFW reports a framebuffer size in pixels, never a negative one; 0 is
\* what a minimised window reports).
MaxDim == 1
\* At most MaxQueue events wait in the receiver at any time.
MaxQueue == 2
\* The loop is followed for MaxFrames iterations.
MaxFrames == 2
\* settings.fps ranges over 0..MaxFps.
MaxFps == 1
\* In the loop's specification the keys that read as pressed are Escape and
\* F1..F<MaxHeldKey>; all ten keys are pressed under SpecInput.
MaxHeldKey == 1
\* At most MaxErrors errors are reported to the error callback.
MaxErrors == 2

\* ------------------------------------------------------- program constants
\* Key::F1 .. Key::F10 are tested by process_input.
NumFKeys == 10
\* Clock ticks per second of the frame limiter's clock.
TicksPerSecond == 2
\* i32::MAX
I32Max == 2147483647

FKeys == 1..NumFKeys
Dims == 0..MaxDim

\* `x as u32` of an i32 x: x itself when x >= 0, x + 2^32 otherwise.
AsU32(x) == IF x >= 0 THEN x ELSE ((x + I32Max) + 1) + (I32Max + 1)
\* `x as i32` of a u32 x: x itself when x <= i32::MAX, x - 2^32 otherwise.
AsI32(x) == IF x <= I32Max THEN x ELSE ((x - I32Max) - 1) - (I32Max + 1)

\* glfw::WindowEvent values the window was asked to report (framebuffer-size,
\* cursor-pos and scroll polling are enabled in Game::new).  Cursor and scroll
\* events take the same `_ => {}` arm and their payload is never read: CursorPos
\* stands for both.
FramebufferSize(w, h) == [type |-> "FramebufferSize", width |-> w, height |-> h]
CursorPos == [type |-> "CursorPos", width |-> 0, height |-> 0]
WindowEvents == {FramebufferSize(w, h) : w \in Dims, h \in Dims} \cup {CursorPos}

SeqsUpTo(S, n) == UNION {[1..k -> S] : k \in 0..n}

VARIABLES
  pc,                \* statement of Game::run executed next
  should_close,      \* window.should_close()
  events,            \* self.events: the receiver's queue of window events
  settings,          \* self.settings
  frame_buffer,      \* self.frame_buffer: size and whether it is the bound target
  viewport,          \* size passed to the last gl::Viewport call
  post_proc_effect,  \* self.post_proc_effect
  uniform_effect,    \* uniform 0 of post_proc_shader
  frame_limiter,     \* self.frame_limiter: target duration and time since start
  dt,                \* local dt of the current iteration
  frameNo,           \* number of iterations begun
  calls,             \* calls made in the current iteration, by callee
  lastCall,          \* iteration of the last scene.update / scene.draw / swap_buffers
  batch,             \* viewport and resize calls of the process_events call that just returned
  lastResize,        \* size of the last framebuffer-size event handled, else of construction
  resized,           \* a framebuffer-size event has been handled
  pending,           \* events polled and not yet handled
  construction,      \* the settings Game::new was given
  drawAspect,        \* <<w, h>> of the aspect ratio of the last projection
  inputLog,          \* order of the polls made by the last process_input
  escFrame,          \* iteration in which Escape was first read as pressed
  input,             \* SpecInput: the keys pressed and the selector before process_input
  idleClose,         \* a poll of the idle-wait loop delivered the close request that set the flag
  dtSeen,            \* the dt start returned and each callee was passed, this iteration
  error_count,       \* the Cell<usize> of the error callback
  printed,           \* the count the last "GLFW error" line showed, -1 before the first
  fPressed           \* one of F1..F10 has been read as pressed

vars == <<pc, should_close, events, settings, frame_buffer, viewport, post_proc_effect,
          uniform_effect, frame_limiter, dt, frameNo, calls, lastCall, batch, lastResize, resized, pending,
          construction, drawAspect, inputLog, escFrame, input,
                 idleClose, dtSeen, error_count, printed, fPressed>>

\* ------------------------------------------------------------ collaborators
\* FrameLimiter::new(fps): target frame duration 1/fps, at least one tick.
FrameLimiterNew(fps) ==
  [target |-> IF fps = 0 THEN 1
              ELSE IF TicksPerSecond \div fps < 1 THEN 1 ELSE TicksPerSecond \div fps,
   elapsed |-> 0]
\* Time passing: elapsed saturates at the target, beyond which stop() answers the same.
Advance(fl, d) ==
  [fl EXCEPT !.elapsed = IF fl.elapsed + d > fl.target THEN fl.target ELSE fl.elapsed + d]
\* FrameLimiter::stop(): true while the frame's budget is not used up.
FrameLimiterStop(fl) == fl.elapsed < fl.target

\* FrameBuffer::new(width, height)
FrameBufferNew(w, h) == [width |-> w, height |-> h, bound |-> FALSE]
\* FrameBuffer::resize(width, height)
FrameBufferResize(fb, w, h) == [fb EXCEPT !.width = w, !.height = h]

NoCalls ==
  [start |-> 0, update |-> 0, bind |-> 0, draw |-> 0,
   unbind |-> 0, composite |-> 0, swap |-> 0]

\* No callee of the iteration has been passed a dt yet.
NoDt == [start |-> <<>>, controllers |-> <<>>, update |-> <<>>]

\* --------------------------------------------------------------- Game::new
GameNew(s) ==
  /\ pc = "while"
  /\ should_close = FALSE
  /\ events = <<>>
  /\ settings = s
  /\ frame_buffer = FrameBufferNew(AsI32(s.width), AsI32(s.height))
  /\ viewport = <<s.width, s.height>>
  /\ post_proc_effect = 0
  /\ uniform_effect = 0
  /\ frame_limiter = FrameLimiterNew(s.fps)
  /\ dt = 0
  /\ frameNo = 0
  /\ calls = NoCalls
  /\ lastCall = [update |-> 0, draw |-> 0, swap |-> 0]
  /\ batch = [viewports |-> 0, resizes |-> 0]
  /\ lastResize = <<s.width, s.height>>
  /\ resized = FALSE
  /\ pending = 0
  /\ construction = s
  /\ drawAspect = <<0, 0>>
  /\ inputLog = <<>>
  /\ escFrame = 0
  /\ input = [escape |-> FALSE, fkeys |-> {}, effect |-> 0]
  /\ idleClose = FALSE
  /\ dtSeen = NoDt
  /\ error_count = 0
  /\ printed = -1
  /\ fPressed = FALSE

\* The settings a game is constructed with: a window wider than it is high.
GameSettings ==
  [is_fullscreen : {FALSE}, width : {MaxDim + 1}, height : 1..MaxDim, fps : 0..MaxFps]

Init == \E s \in GameSettings : GameNew(s)

\* --------------------------------------------------------------- Game::run
\* The statements of the loop body up to the idle-wait, in program order.
RunBody ==
  <<"start", "make_current", "poll_events", "process_events", "process_input", "update",
    "bind", "clear", "draw", "unbind", "clear_screen", "composite", "swap_buffers", "stop">>

IndexOf(s) == CHOOSE i \in DOMAIN RunBody : RunBody[i] = s

\* Mutant: input is processed before the event queue is drained.
StepAfterReordered(s) ==
  LET body == <<"start", "make_current", "poll_events", "process_input", "process_events",
                "update", "bind", "clear", "draw", "unbind", "clear_screen", "composite",
                "swap_buffers", "stop">>
      i == CHOOSE j \in DOMAIN body : body[j] = s
  IN body[i + 1]

\* The statement that follows s in the loop body.
StepAfter(s) == RunBody[IndexOf(s) + 1]

\* Mutant: the loop head does not test the close flag.
WhileEnterUnconditional ==
  /\ pc = "while"
  /\ frameNo < MaxFrames
  /\ pc' = "start"
  /\ UNCHANGED <<should_close, events, settings, frame_buffer, viewport, post_proc_effect,
                 uniform_effect, frame_limiter, dt, frameNo, calls, lastCall, batch, lastResize,
                 resized, pending, construction, drawAspect, inputLog, escFrame, input,
                 idleClose, dtSeen, error_count, printed, fPressed>>

\* while !self.window.should_close()
WhileEnter ==
  /\ pc = "while"
  /\ ~should_close
  /\ frameNo < MaxFrames
  /\ pc' = "start"
  /\ UNCHANGED <<should_close, events, settings, frame_buffer, viewport, post_proc_effect,
                 uniform_effect, frame_limiter, dt, frameNo, calls, lastCall, batch, lastResize, resized, pending,
                 construction, drawAspect, inputLog, escFrame, input,
                 idleClose, dtSeen, error_count, printed, fPressed>>

WhileExit ==
  /\ pc = "while"
  /\ should_close
  /\ pc' = "done"
  /\ UNCHANGED <<should_close, events, settings, frame_buffer, viewport, post_proc_effect,
                 uniform_effect, frame_limiter, dt, frameNo, calls, lastCall, batch, lastResize, resized, pending,
                 construction, drawAspect, inputLog, escFrame, input,
                 idleClose, dtSeen, error_count, printed, fPressed>>

\* let dt = self.frame_limiter.start();
Start ==
  /\ pc = "start"
  /\ pc' = StepAfter("start")
  /\ dt' = frame_limiter.elapsed
  /\ frame_limiter' = [frame_limiter EXCEPT !.elapsed = 0]
  /\ frameNo' = frameNo + 1
  /\ calls' = [NoCalls EXCEPT !.start = 1]
  /\ inputLog' = <<>>
  /\ drawAspect' = <<0, 0>>
  /\ dtSeen' = [NoDt EXCEPT !.start = <<frame_limiter.elapsed>>]
  /\ UNCHANGED <<should_close, events, settings, frame_buffer, viewport, post_proc_effect,
                 uniform_effect, lastCall, batch, lastResize, resized, pending, construction,
                 escFrame, input, idleClose, error_count, printed, fPressed>>

\* self.window.make_current();
MakeCurrent ==
  /\ pc = "make_current"
  /\ pc' = StepAfter("make_current")
  /\ UNCHANGED <<should_close, events, settings, frame_buffer, viewport, post_proc_effect,
                 uniform_effect, frame_limiter, dt, frameNo, calls, lastCall, batch, lastResize, resized, pending,
                 construction, drawAspect, inputLog, escFrame, input,
                 idleClose, dtSeen, error_count, printed, fPressed>>

\* Mutant: the close flag follows the current close request.
PollResetsClose(new, close) ==
  /\ events' = events \o new
  /\ pending' = pending + Len(new)
  /\ should_close' = close

\* glfw.poll_events(): the window system's pending events are sent to the
\* receiver, and a close request sets the window's close flag.
Poll(new, close) ==
  /\ events' = events \o new
  /\ pending' = pending + Len(new)
  /\ should_close' = (should_close \/ close)

\* self.glfw.poll_events();  at the start of the frame
PollEvents ==
  /\ pc = "poll_events"
  /\ pc' = StepAfter("poll_events")
  /\ \E new \in SeqsUpTo(WindowEvents, MaxQueue - Len(events)), close \in BOOLEAN :
       Poll(new, close)
  /\ UNCHANGED <<settings, frame_buffer, viewport, post_proc_effect, uniform_effect,
                 frame_limiter, dt, frameNo, calls, lastCall, batch, lastResize, resized, construction,
                 drawAspect, inputLog, escFrame, input,
                 idleClose, dtSeen, error_count, printed, fPressed>>

\* ------------------------------------------------- Game::process_events
\* Mutant: the offscreen target is not resized with the window.
HandleEventNoResize(ev, g) ==
  IF ev.type = "FramebufferSize"
    THEN [g EXCEPT !.viewport = <<ev.width, ev.height>>,
                   !.viewports = @ + 1,
                   !.settings.width = AsU32(ev.width),
                   !.settings.height = AsU32(ev.height),
                   !.handled = @ + 1]
    ELSE [g EXCEPT !.handled = @ + 1]

\* Mutant: every event is taken for a framebuffer-size event.
HandleEventAnyResizes(ev, g) ==
  [g EXCEPT !.viewport = <<ev.width, ev.height>>,
            !.viewports = @ + 1,
            !.settings.width = AsU32(ev.width),
            !.settings.height = AsU32(ev.height),
            !.frame_buffer = FrameBufferResize(@, ev.width, ev.height),
            !.resizes = @ + 1,
            !.handled = @ + 1]

\* One arm of the match: what handling one event does to the game.
HandleEvent(ev, g) ==
  IF ev.type = "FramebufferSize"
    THEN [g EXCEPT !.viewport = <<ev.width, ev.height>>,
                   !.viewports = @ + 1,
                   !.settings.width = AsU32(ev.width),
                   !.settings.height = AsU32(ev.height),
                   !.frame_buffer = FrameBufferResize(@, ev.width, ev.height),
                   !.resizes = @ + 1,
                   !.handled = @ + 1]
    ELSE [g EXCEPT !.handled = @ + 1]

\* Mutant: only the oldest message is handled.
HandleEventsOldestOnly(q, g) ==
  IF q = <<>> THEN g ELSE HandleEvent(Head(q), g)

\* for (_, event) in glfw::flush_messages(&self.events): every message in
\* the receiver, oldest first.
RECURSIVE HandleEvents(_, _)
HandleEvents(q, g) ==
  IF q = <<>> THEN g ELSE HandleEvents(Tail(q), HandleEvent(Head(q), g))

\* Mutant: the messages are read but stay in the receiver.
FlushedKept(q) == q

\* What flush_messages leaves in the receiver.
Flushed(q) == <<>>

\* The framebuffer-size events of q, oldest first.
FbEvents(q) == SelectSeq(q, LAMBDA ev : ev.type = "FramebufferSize")

ProcessEvents ==
  /\ pc = "process_events"
  /\ pc' = StepAfter("process_events")
  /\ LET g == HandleEvents(events,
                [settings |-> settings, frame_buffer |-> frame_buffer, viewport |-> viewport,
                 viewports |-> 0, resizes |-> 0, handled |-> 0])
     IN /\ settings' = g.settings
        /\ frame_buffer' = g.frame_buffer
        /\ viewport' = g.viewport
        /\ batch' = [viewports |-> g.viewports, resizes |-> g.resizes]
        /\ pending' = pending - g.handled
  /\ LET fb == FbEvents(events)
     IN /\ lastResize' = IF fb = <<>> THEN lastResize
                         ELSE <<fb[Len(fb)].width, fb[Len(fb)].height>>
        /\ resized' = (resized \/ fb # <<>>)
  /\ events' = Flushed(events)
  /\ UNCHANGED <<should_close, post_proc_effect, uniform_effect, frame_limiter, dt, frameNo,
                 calls, lastCall, construction, drawAspect, inputLog, escFrame, input,
                 idleClose, dtSeen, error_count, printed, fPressed>>

\* -------------------------------------------------- Game::process_input
\* Mutant: an else-if chain, the lowest pressed key wins.
RECURSIVE EffectLowestWins(_, _, _)
EffectLowestWins(k, pressed, e) ==
  IF k > NumFKeys THEN e
  ELSE IF k \in pressed THEN k ELSE EffectLowestWins(k + 1, pressed, e)

\* Mutant: with no function key pressed the selector goes back to 0.
RECURSIVE EffectResetWhenNone(_, _, _)
EffectResetWhenNone(k, pressed, e) ==
  IF pressed = {} THEN 0
  ELSE IF k > NumFKeys THEN e
  ELSE EffectResetWhenNone(k + 1, pressed, IF k \in pressed THEN k ELSE e)

\* The ten `if get_key(Fk) == Press { post_proc_effect = k }` statements,
\* executed in order from Fk on.
RECURSIVE EffectFrom(_, _, _)
EffectFrom(k, pressed, e) ==
  IF k > NumFKeys THEN e
  ELSE EffectFrom(k + 1, pressed, IF k \in pressed THEN k ELSE e)

\* Mutant: Escape is not acted on.
CloseAfterEscapeIgnored(escape, flag) == flag

\* if get_key(Escape) == Press { set_should_close(true) }
CloseAfterEscape(escape, flag) == IF escape THEN TRUE ELSE flag

\* Mutant: the controllers are created in the other order.
ControllerOrderArrowsFirst == <<"Arrows", "WASD">>

\* for ctrl in self.controller.iter_mut(): WASD, then Arrows (Game::new).
ControllerOrder == <<"WASD", "Arrows">>

ProcessInput(escape, pressed) ==
  /\ pc = "process_input"
  /\ pc' = StepAfter("process_input")
  /\ should_close' = CloseAfterEscape(escape, should_close)
  /\ post_proc_effect' = EffectFrom(1, pressed, post_proc_effect)
  /\ inputLog' = <<"Escape", "F1..F10">> \o ControllerOrder
  /\ escFrame' = IF escape /\ escFrame = 0 THEN frameNo ELSE escFrame
  /\ batch' = [viewports |-> 0, resizes |-> 0]
  /\ dtSeen' = [dtSeen EXCEPT !.controllers = [i \in DOMAIN ControllerOrder |-> dt]]
  /\ fPressed' = (fPressed \/ pressed # {})
  /\ UNCHANGED <<events, settings, frame_buffer, viewport, uniform_effect, frame_limiter, dt,
                 frameNo, calls, lastCall, lastResize, resized, pending, construction,
                 drawAspect>>

\* self.process_input(dt);  with whatever keys the window reports as pressed
ProcessInputAny ==
  /\ \E escape \in BOOLEAN, pressed \in SUBSET (1..MaxHeldKey) : ProcessInput(escape, pressed)
  /\ UNCHANGED <<input, error_count, printed, idleClose>>

\* ------------------------------------------------- the rest of the frame
\* self.scene.update(dt, &self.controller);
Update ==
  /\ pc = "update"
  /\ pc' = StepAfter("update")
  /\ calls' = [calls EXCEPT !.update = @ + 1]
  /\ lastCall' = [lastCall EXCEPT !.update = frameNo]
  /\ dtSeen' = [dtSeen EXCEPT !.update = Append(@, dt)]
  /\ UNCHANGED <<should_close, events, settings, frame_buffer, viewport, post_proc_effect,
                 uniform_effect, frame_limiter, dt, frameNo, batch, lastResize, resized, pending, construction,
                 drawAspect, inputLog, escFrame, input,
                 idleClose, error_count, printed, fPressed>>

\* self.frame_buffer.bind();
Bind ==
  /\ pc = "bind"
  /\ pc' = StepAfter("bind")
  /\ frame_buffer' = [frame_buffer EXCEPT !.bound = TRUE]
  /\ calls' = [calls EXCEPT !.bind = @ + 1]
  /\ UNCHANGED <<should_close, events, settings, viewport, post_proc_effect, uniform_effect,
                 frame_limiter, dt, frameNo, lastCall, batch, lastResize, resized, pending, construction,
                 drawAspect, inputLog, escFrame, input,
                 idleClose, dtSeen, error_count, printed, fPressed>>

\* gl::Enable(DEPTH_TEST); gl::ClearColor(..); gl::Clear(COLOR | DEPTH);
Clear ==
  /\ pc = "clear"
  /\ pc' = StepAfter("clear")
  /\ UNCHANGED <<should_close, events, settings, frame_buffer, viewport, post_proc_effect,
                 uniform_effect, frame_limiter, dt, frameNo, calls, lastCall, batch, lastResize, resized, pending,
                 construction, drawAspect, inputLog, escFrame, input,
                 idleClose, dtSeen, error_count, printed, fPressed>>

\* Mutant: the aspect ratio is taken as height over width.
DrawInvertedAspect ==
  /\ pc = "draw"
  /\ pc' = StepAfter("draw")
  /\ drawAspect' = <<settings.height, settings.width>>
  /\ calls' = [calls EXCEPT !.draw = @ + 1]
  /\ lastCall' = [lastCall EXCEPT !.draw = frameNo]
  /\ UNCHANGED <<should_close, events, settings, frame_buffer, viewport, post_proc_effect,
                 uniform_effect, frame_limiter, dt, frameNo, batch, lastResize, resized,
                 pending, construction, inputLog, escFrame, input,
                 idleClose, dtSeen, error_count, printed, fPressed>>

\* let projection = Perspective3::new(width as f32 / height as f32, ..);
\* self.scene.draw(&projection);
Draw ==
  /\ pc = "draw"
  /\ pc' = StepAfter("draw")
  /\ drawAspect' = <<settings.width, settings.height>>
  /\ calls' = [calls EXCEPT !.draw = @ + 1]
  /\ lastCall' = [lastCall EXCEPT !.draw = frameNo]
  /\ UNCHANGED <<should_close, events, settings, frame_buffer, viewport, post_proc_effect,
                 uniform_effect, frame_limiter, dt, frameNo, batch, lastResize, resized, pending, construction,
                 inputLog, escFrame, input,
                 idleClose, dtSeen, error_count, printed, fPressed>>

\* Mutant: the offscreen target stays bound.
UnbindMissing ==
  /\ pc = "unbind"
  /\ pc' = StepAfter("unbind")
  /\ calls' = [calls EXCEPT !.unbind = @ + 1]
  /\ UNCHANGED <<should_close, events, settings, frame_buffer, viewport, post_proc_effect,
                 uniform_effect, frame_limiter, dt, frameNo, lastCall, batch, lastResize,
                 resized, pending, construction, drawAspect, inputLog, escFrame, input,
                 idleClose, dtSeen, error_count, printed, fPressed>>

\* self.frame_buffer.unbind();
Unbind ==
  /\ pc = "unbind"
  /\ pc' = StepAfter("unbind")
  /\ frame_buffer' = [frame_buffer EXCEPT !.bound = FALSE]
  /\ calls' = [calls EXCEPT !.unbind = @ + 1]
  /\ UNCHANGED <<should_close, events, settings, viewport, post_proc_effect, uniform_effect,
                 frame_limiter, dt, frameNo, lastCall, batch, lastResize, resized, pending, construction,
                 drawAspect, inputLog, escFrame, input,
                 idleClose, dtSeen, error_count, printed, fPressed>>

\* gl::Disable(DEPTH_TEST); gl::ClearColor(..); gl::Clear(COLOR);
ClearScreen ==
  /\ pc = "clear_screen"
  /\ pc' = StepAfter("clear_screen")
  /\ UNCHANGED <<should_close, events, settings, frame_buffer, viewport, post_proc_effect,
                 uniform_effect, frame_limiter, dt, frameNo, calls, lastCall, batch, lastResize, resized, pending,
                 construction, drawAspect, inputLog, escFrame, input,
                 idleClose, dtSeen, error_count, printed, fPressed>>

\* Mutant: the composite pass draws without uploading the selector.
CompositeNoUpload ==
  /\ pc = "composite"
  /\ pc' = StepAfter("composite")
  /\ calls' = [calls EXCEPT !.composite = @ + 1]
  /\ UNCHANGED <<should_close, events, settings, frame_buffer, viewport, post_proc_effect,
                 uniform_effect, frame_limiter, dt, frameNo, lastCall, batch, lastResize,
                 resized, pending, construction, drawAspect, inputLog, escFrame, input,
                 idleClose, dtSeen, error_count, printed, fPressed>>

\* post_proc_shader.bind(); set_uniform_int(0, post_proc_effect); .. DrawArrays
Composite ==
  /\ pc = "composite"
  /\ pc' = StepAfter("composite")
  /\ uniform_effect' = post_proc_effect
  /\ calls' = [calls EXCEPT !.composite = @ + 1]
  /\ UNCHANGED <<should_close, events, settings, frame_buffer, viewport, post_proc_effect,
                 frame_limiter, dt, frameNo, lastCall, batch, lastResize, resized, pending, construction,
                 drawAspect, inputLog, escFrame, input,
                 idleClose, dtSeen, error_count, printed, fPressed>>

\* self.window.swap_buffers();  The frame's work has taken some time by now.
SwapBuffers ==
  /\ pc = "swap_buffers"
  /\ pc' = StepAfter("swap_buffers")
  /\ \E d \in 0..frame_limiter.target : frame_limiter' = Advance(frame_limiter, d)
  /\ calls' = [calls EXCEPT !.swap = @ + 1]
  /\ lastCall' = [lastCall EXCEPT !.swap = frameNo]
  /\ UNCHANGED <<should_close, events, settings, frame_buffer, viewport, post_proc_effect,
                 uniform_effect, dt, frameNo, batch, lastResize, resized, pending, construction, drawAspect,
                 inputLog, escFrame, input,
                 idleClose, dtSeen, error_count, printed, fPressed>>

\* Mutant: the idle-wait loop can go round whatever stop() answers.
StopTrueAlways ==
  /\ pc = "stop"
  /\ pc' = "idle_poll"
  /\ UNCHANGED <<should_close, events, settings, frame_buffer, viewport, post_proc_effect,
                 uniform_effect, frame_limiter, dt, frameNo, calls, lastCall, batch, lastResize,
                 resized, pending, construction, drawAspect, inputLog, escFrame, input,
                 idleClose, dtSeen, error_count, printed, fPressed>>

\* while self.frame_limiter.stop() { .. }
StopTrue ==
  /\ pc = "stop"
  /\ FrameLimiterStop(frame_limiter)
  /\ pc' = "idle_poll"
  /\ UNCHANGED <<should_close, events, settings, frame_buffer, viewport, post_proc_effect,
                 uniform_effect, frame_limiter, dt, frameNo, calls, lastCall, batch, lastResize, resized, pending,
                 construction, drawAspect, inputLog, escFrame, input,
                 idleClose, dtSeen, error_count, printed, fPressed>>

\* Mutant: the idle-wait loop can be left whatever stop() answers.
StopFalseAlways ==
  /\ pc = "stop"
  /\ pc' = "while"
  /\ UNCHANGED <<should_close, events, settings, frame_buffer, viewport, post_proc_effect,
                 uniform_effect, frame_limiter, dt, frameNo, calls, lastCall, batch, lastResize,
                 resized, pending, construction, drawAspect, inputLog, escFrame, input,
                 idleClose, dtSeen, error_count, printed, fPressed>>

\* Mutant: after the idle-wait the body starts again without the loop's test.
StopFalseSkipsTest ==
  /\ pc = "stop"
  /\ ~FrameLimiterStop(frame_limiter)
  /\ pc' = "start"
  /\ UNCHANGED <<should_close, events, settings, frame_buffer, viewport, post_proc_effect,
                 uniform_effect, frame_limiter, dt, frameNo, calls, lastCall, batch, lastResize,
                 resized, pending, construction, drawAspect, inputLog, escFrame, input,
                 idleClose, dtSeen, error_count, printed, fPressed>>

StopFalse ==
  /\ pc = "stop"
  /\ ~FrameLimiterStop(frame_limiter)
  /\ pc' = "while"
  /\ UNCHANGED <<should_close, events, settings, frame_buffer, viewport, post_proc_effect,
                 uniform_effect, frame_limiter, dt, frameNo, calls, lastCall, batch, lastResize, resized, pending,
                 construction, drawAspect, inputLog, escFrame, input,
                 idleClose, dtSeen, error_count, printed, fPressed>>

\* self.glfw.poll_events();  in the idle-wait loop
IdlePoll ==
  /\ pc = "idle_poll"
  /\ pc' = "sleep"
  /\ \E new \in SeqsUpTo(WindowEvents, MaxQueue - Len(events)), close \in BOOLEAN :
       /\ Poll(new, close)
       /\ idleClose' = (idleClose \/ (close /\ ~should_close))
  /\ UNCHANGED <<settings, frame_buffer, viewport, post_proc_effect, uniform_effect,
                 frame_limiter, dt, frameNo, calls, lastCall, batch, lastResize, resized, construction,
                 drawAspect, inputLog, escFrame, input,
                 dtSeen, error_count, printed, fPressed>>

\* sleep(nano_sec);
Sleep ==
  /\ pc = "sleep"
  /\ pc' = "stop"
  /\ frame_limiter' = Advance(frame_limiter, 1)
  /\ UNCHANGED <<should_close, events, settings, frame_buffer, viewport, post_proc_effect,
                 uniform_effect, dt, frameNo, calls, lastCall, batch, lastResize, resized, pending, construction,
                 drawAspect, inputLog, escFrame, input,
                 idleClose, dtSeen, error_count, printed, fPressed>>

Next ==
  \/ WhileEnter \/ WhileExit
  \/ Start \/ MakeCurrent \/ PollEvents \/ ProcessEvents \/ ProcessInputAny
  \/ Update \/ Bind \/ Clear \/ Draw \/ Unbind \/ ClearScreen \/ Composite \/ SwapBuffers
  \/ StopTrue \/ StopFalse \/ IdlePoll \/ Sleep

Spec == Init /\ [][Next]_vars

\* ------------------------------------------------------------- SpecInput
\* process_input on its own: one call, in the second iteration of the loop,
\* for every prior selector value and every combination of Escape and F1..F10.
InitInput ==
  \E s \in GameSettings, e \in 0..NumFKeys, escape \in BOOLEAN, pressed \in SUBSET FKeys :
    /\ pc = "process_input"
    /\ should_close = FALSE
    /\ events = <<>>
    /\ settings = s
    /\ frame_buffer = FrameBufferNew(AsI32(s.width), AsI32(s.height))
    /\ viewport = <<s.width, s.height>>
    /\ post_proc_effect = e
    /\ uniform_effect = e
    /\ frame_limiter = FrameLimiterNew(s.fps)
    /\ dt = FrameLimiterNew(s.fps).target
    /\ frameNo = 2
    /\ calls = [NoCalls EXCEPT !.start = 1]
    /\ lastCall = [update |-> 1, draw |-> 1, swap |-> 1]
    /\ batch = [viewports |-> 0, resizes |-> 0]
    /\ lastResize = <<s.width, s.height>>
    /\ resized = FALSE
    /\ pending = 0
    /\ construction = s
    /\ drawAspect = <<0, 0>>
    /\ inputLog = <<>>
    /\ escFrame = 0
    /\ input = [escape |-> escape, fkeys |-> pressed, effect |-> e]
    /\ idleClose = FALSE
    /\ dtSeen = NoDt
    /\ error_count = 0
    /\ printed = -1
    /\ fPressed = (e # 0)

ProcessInputGiven ==
  /\ ProcessInput(input.escape, input.fkeys)
  /\ UNCHANGED <<input, error_count, printed, idleClose>>

NextInput == ProcessInputGiven

SpecInput == InitInput /\ [][NextInput]_vars

\* ------------------------------------------- the loop without resize events
\* The same loop in an environment whose polls deliver cursor and scroll
\* events and close requests but no framebuffer-size event.  Under SpecKeys
\* every combination of Escape and F1..F10 is read; SpecLive adds that the
\* program keeps running; SpecErrors adds errors reported to error_callback.
PollEventsCursor ==
  /\ pc = "poll_events"
  /\ pc' = StepAfter("poll_events")
  /\ \E new \in SeqsUpTo({CursorPos}, MaxQueue - Len(events)), close \in BOOLEAN :
       Poll(new, close)
  /\ UNCHANGED <<settings, frame_buffer, viewport, post_proc_effect, uniform_effect,
                 frame_limiter, dt, frameNo, calls, lastCall, batch, lastResize, resized,
                 construction, drawAspect, inputLog, escFrame, input, idleClose, dtSeen,
                 error_count, printed, fPressed>>

IdlePollCursor ==
  /\ pc = "idle_poll"
  /\ pc' = "sleep"
  /\ \E new \in SeqsUpTo({CursorPos}, MaxQueue - Len(events)), close \in BOOLEAN :
       /\ Poll(new, close)
       /\ idleClose' = (idleClose \/ (close /\ ~should_close))
  /\ UNCHANGED <<settings, frame_buffer, viewport, post_proc_effect, uniform_effect,
                 frame_limiter, dt, frameNo, calls, lastCall, batch, lastResize, resized,
                 construction, drawAspect, inputLog, escFrame, input, dtSeen, error_count,
                 printed, fPressed>>

\* self.process_input(dt);  with any of Escape and F1..F10 pressed
ProcessInputAll ==
  /\ \E escape \in BOOLEAN, pressed \in SUBSET FKeys : ProcessInput(escape, pressed)
  /\ UNCHANGED <<input, error_count, printed, idleClose>>

\* Mutant: the count is incremented before it is printed.
ErrorCallbackPreIncrement ==
  /\ pc # "done"
  /\ error_count < MaxErrors
  /\ printed' = error_count + 1
  /\ error_count' = error_count + 1
  /\ UNCHANGED <<pc, should_close, events, settings, frame_buffer, viewport, post_proc_effect,
                 uniform_effect, frame_limiter, dt, frameNo, calls, lastCall, batch, lastResize,
                 resized, pending, construction, drawAspect, inputLog, escFrame, input,
                 idleClose, dtSeen, fPressed>>

\* fn error_callback(_, description, error_count): called by GLFW from inside
\* any of its functions.  (The usize counter cannot overflow within MaxErrors.)
ErrorCallback ==
  /\ pc # "done"
  /\ error_count < MaxErrors
  /\ printed' = error_count
  /\ error_count' = error_count + 1
  /\ UNCHANGED <<pc, should_close, events, settings, frame_buffer, viewport, post_proc_effect,
                 uniform_effect, frame_limiter, dt, frameNo, calls, lastCall, batch, lastResize,
                 resized, pending, construction, drawAspect, inputLog, escFrame, input,
                 idleClose, dtSeen, fPressed>>

\* The statements of the loop that neither poll nor read keys.
LoopRest ==
  \/ WhileEnter \/ WhileExit
  \/ Start \/ MakeCurrent \/ ProcessEvents
  \/ Update \/ Bind \/ Clear \/ Draw \/ Unbind \/ ClearScreen \/ Composite \/ SwapBuffers
  \/ StopTrue \/ StopFalse \/ Sleep

NextKeys == LoopRest \/ PollEventsCursor \/ IdlePollCursor \/ ProcessInputAll

SpecKeys == Init /\ [][NextKeys]_vars

NextLive == LoopRest \/ PollEventsCursor \/ IdlePollCursor \/ ProcessInputAny

\* The thread that runs Game::run is never suspended for good.
SpecLive == Init /\ [][NextLive]_vars /\ WF_vars(NextLive)

NextErrors == NextLive \/ ErrorCallback

SpecErrors == Init /\ [][NextErrors]_vars

\* ================================================================ claims
\* The iteration whose statements up to swap_buffers have all run.
FrameCompleted == pc \in {"stop", "idle_poll", "sleep"} \/ (pc \in {"while", "done"} /\ frameNo > 0)

\* The order of the steps of one iteration, as the specification lists them.
ListedNext ==
  [start |-> "make_current", make_current |-> "poll_events", poll_events |-> "process_events",
   process_events |-> "process_input", process_input |-> "update", update |-> "bind",
   bind |-> "clear", clear |-> "draw", draw |-> "unbind", unbind |-> "clear_screen",
   clear_screen |-> "composite", composite |-> "swap_buffers", swap_buffers |-> "stop"]

\* C1: while the window is not closing, every iteration of Game::run runs
\* frame_limiter.start, make_current, poll_events, process_events,
\* process_input (keys, then the controllers), scene.update, bind, clear,
\* scene.draw, unbind, clear of the visible framebuffer, the composite draw,
\* swap_buffers and the idle-wait loop on frame_limiter.stop, in this order,
\* none skipped or reordered.
C1_FrameOrder ==
  [][/\ pc \in DOMAIN ListedNext => pc' = ListedNext[pc]
     /\ pc = "process_input" => inputLog' = <<"Escape", "F1..F10", "WASD", "Arrows">>
     /\ pc = "stop" => pc' \in {"idle_poll", "while"}
     /\ pc = "idle_poll" => pc' = "sleep"
     /\ pc = "sleep" => pc' = "stop"
     /\ (pc = "while" /\ ~should_close) => pc' = "start"]_vars

C1_Witness ==
  /\ pc = "while"
  /\ frameNo = 2
  /\ ~should_close
  /\ calls.swap = 1
  /\ inputLog # <<>>

\* C2 (as claimed): every polled event is handled by process_events exactly
\* once before any later rendering, the queue is empty right after
\* process_events, and no event is left unhandled over a whole run of the loop.
C2_NoEventDropped ==
  /\ pending = Len(events)
  /\ pc = "process_input" => events = <<>>
  /\ pc \in {"bind", "clear", "draw", "unbind", "clear_screen", "composite", "swap_buffers"}
       => pending = 0
  /\ pc = "done" => pending = 0

\* C2 (amended): every polled event is handled by process_events exactly once
\* before any later rendering and the queue is empty right after
\* process_events; events polled during the idle-wait of the last iteration
\* are still in the queue when the loop exits.
C2_HandledOnceBeforeRendering ==
  /\ pending = Len(events)
  /\ pc = "process_input" => events = <<>>
  /\ pc \in {"update", "bind", "clear", "draw", "unbind", "clear_screen", "composite",
             "swap_buffers"} => pending = 0

C2_Witness ==
  /\ pc = "draw"
  /\ frameNo = 2
  /\ resized
  /\ pending = 0

\* C3: when process_events runs with N >= 1 framebuffer-size events queued,
\* afterwards the offscreen target's size, settings.width/height and the size
\* of the last viewport call all equal the last event's size, and N viewport
\* calls and N resize calls were made.
C3_LastResizeWins ==
  [][(pc = "process_events" /\ FbEvents(events) # <<>>) =>
       LET fb == FbEvents(events)
           last == fb[Len(fb)]
       IN /\ frame_buffer'.width = last.width
          /\ frame_buffer'.height = last.height
          /\ settings'.width = last.width
          /\ settings'.height = last.height
          /\ viewport' = <<last.width, last.height>>
          /\ batch'.viewports = Len(fb)
          /\ batch'.resizes = Len(fb)]_vars

C3_Witness ==
  /\ pc = "process_input"
  /\ batch.resizes = 2
  /\ batch.viewports = 2
  /\ frame_buffer.width = 0
  /\ frame_buffer.height = 1

\* C4: at every scene.draw call the offscreen target's size equals
\* settings.width/height, which the projection's aspect ratio is built from,
\* and equals the size of the framebuffer-size event handled last, or the
\* construction size when none was handled.
C4_DrawTargetMatches ==
  /\ pc = "draw" =>
       /\ frame_buffer.width = settings.width
       /\ frame_buffer.height = settings.height
       /\ <<frame_buffer.width, frame_buffer.height>> = lastResize
       /\ ~resized => lastResize = <<construction.width, construction.height>>
  /\ pc = "unbind" => drawAspect = lastResize

C4_Witness ==
  /\ pc = "unbind"
  /\ frameNo = 2
  /\ resized
  /\ drawAspect = <<1, 1>>
  /\ calls.draw = 1

\* C5: if Escape reads as pressed in process_input, the close flag is set when
\* process_input returns, and no scene.update, scene.draw or swap_buffers call
\* is made after that iteration.
C5_EscapeEndsLoop ==
  escFrame # 0 =>
    /\ should_close
    /\ frameNo = escFrame
    /\ lastCall.update <= escFrame
    /\ lastCall.draw <= escFrame
    /\ lastCall.swap <= escFrame

C5_Witness ==
  /\ pc = "done"
  /\ escFrame = 1
  /\ lastCall.swap = 1

\* C6: the close flag goes from false to true only in poll_events (the close
\* request of the window system) or in process_input (Escape); nothing resets
\* it, and once the loop has exited no step runs.
C6_CloseFlagMonotone ==
  [][/\ should_close => should_close'
     /\ (~should_close /\ should_close') => pc \in {"poll_events", "idle_poll", "process_input"}
     /\ pc = "done" => pc' = "done"]_vars

C6_Witness ==
  /\ pc = "done"
  /\ escFrame = 0
  /\ should_close
  /\ frameNo = 2

SetMax(S) == CHOOSE m \in S : \A x \in S : x <= m

\* C7: for every set S of keys among F1..F10 pressed during one process_input
\* call and every prior selector e, the selector is afterwards the highest
\* index in S when S is not empty, and e when it is.
C7_HighestKeyWins ==
  pc = "update" =>
    post_proc_effect = IF input.fkeys = {} THEN input.effect ELSE SetMax(input.fkeys)

C7_Witness ==
  /\ pc = "update"
  /\ input.fkeys = {3, 7}
  /\ input.effect = 9
  /\ post_proc_effect = 7

\* The framebuffer-size events of q that have a positive width and height.
ProperFbEvents(q) == SelectSeq(FbEvents(q), LAMBDA ev : ev.width > 0 /\ ev.height > 0)

\* C8: a framebuffer-size event with a zero or negative width or height is
\* skipped by process_events: it changes neither the offscreen target's size
\* nor settings.width/height, so no draw uses a degenerate target or aspect.
C8_DegenerateResizeSkipped ==
  [][pc = "process_events" =>
       LET ok == ProperFbEvents(events)
       IN IF ok = <<>>
            THEN /\ settings' = settings
                 /\ frame_buffer' = frame_buffer
            ELSE /\ settings'.width = ok[Len(ok)].width
                 /\ settings'.height = ok[Len(ok)].height
                 /\ frame_buffer'.width = ok[Len(ok)].width
                 /\ frame_buffer'.height = ok[Len(ok)].height]_vars

\* C9: each completed iteration has called scene.update, scene.draw and
\* swap_buffers once each, and when no framebuffer-size event has been
\* handled the aspect ratio of the draw is construction width over
\* construction height.
C9_OncePerFrame ==
  FrameCompleted =>
    /\ calls.update = 1
    /\ calls.draw = 1
    /\ calls.swap = 1
    /\ ~resized => drawAspect = <<construction.width, construction.height>>

C9_Witness ==
  /\ pc = "while"
  /\ frameNo = 2
  /\ ~resized
  /\ drawAspect = <<MaxDim + 1, 1>>

\* C10: scene.draw is called only while the offscreen target is bound; the
\* composite draw, swap_buffers and every resize of the target happen only
\* while it is unbound; bind and unbind alternate, once each per iteration,
\* bind first.
C10_BindBrackets ==
  /\ pc = "draw" => frame_buffer.bound
  /\ pc \in {"process_events", "composite", "swap_buffers"} => ~frame_buffer.bound
  /\ calls.unbind <= calls.bind
  /\ calls.bind <= 1
  /\ frame_buffer.bound <=> (calls.bind = 1 /\ calls.unbind = 0)
  /\ FrameCompleted => (calls.bind = 1 /\ calls.unbind = 1)

C10_Witness ==
  /\ pc = "unbind"
  /\ frameNo = 2
  /\ frame_buffer.bound
  /\ calls.draw = 1
  /\ resized

\* The statements of the idle-wait loop, the loop head, and the return.
IdleOrOut == {"stop", "idle_poll", "sleep", "while", "done"}

\* C11: after a poll of the idle-wait loop has delivered a close request, no
\* other iteration is produced: the loop exits when that idle-wait ends and
\* no scene.update, scene.draw or swap_buffers call is made any more.
C11_IdleCloseExits ==
  idleClose =>
    /\ should_close
    /\ pc \in IdleOrOut
    /\ lastCall.update = frameNo
    /\ lastCall.draw = frameNo
    /\ lastCall.swap = frameNo

C11_Witness ==
  /\ idleClose
  /\ pc = "done"
  /\ escFrame = 0
  /\ frameNo = 1

\* C12: for every fps > 0 the next iteration's frame_limiter.start is not
\* called before the target frame duration has passed since this iteration's
\* start: the idle-wait loop is left only once stop() has answered false.
C12_FramePaced ==
  (settings.fps > 0 /\ frameNo > 0 /\ pc \in {"while", "start"}) =>
    /\ frame_limiter.target >= 1
    /\ frame_limiter.elapsed >= frame_limiter.target
    /\ ~FrameLimiterStop(frame_limiter)

C12_Witness ==
  /\ pc = "start"
  /\ frameNo = 1
  /\ settings.fps = 1
  /\ frame_limiter.target = TicksPerSecond
  /\ frame_limiter.elapsed = TicksPerSecond

C14_SettingsChangeOnlyOnResize ==
  [][/\ settings'.fps = settings.fps
     /\ settings'.is_fullscreen = settings.is_fullscreen
     /\ (\/ settings'.width # settings.width
         \/ settings'.height # settings.height
         \/ frame_buffer'.width # frame_buffer.width
         \/ frame_buffer'.height # frame_buffer.height)
          => (pc = "process_events" /\ FbEvents(events) # <<>>)]_vars

C14_Witness ==
  /\ pc = "process_input"
  /\ frameNo = 2
  /\ batch.resizes = 1
  /\ settings.width = 0
  /\ frame_buffer.width = 0
  /\ settings.fps = construction.fps

\* C15: the effect selector is written only by process_input, and it is
\* uploaded to the post-process shader once per iteration, with the value it
\* has after the same iteration's process_input.
C15_SelectorUploadedSameFrame ==
  [][/\ post_proc_effect' # post_proc_effect => pc = "process_input"
     /\ (uniform_effect' # uniform_effect \/ calls'.composite > calls.composite)
          => (pc = "composite" /\ uniform_effect' = post_proc_effect)
     /\ FrameCompleted' => (calls'.composite = 1 /\ uniform_effect' = post_proc_effect')]_vars

C15_Witness ==
  /\ pc = "stop"
  /\ frameNo = 1
  /\ uniform_effect = 7
  /\ post_proc_effect = 7
  /\ calls.composite = 1

\* The statements of an iteration that come after process_input has returned.
AfterInput ==
  \/ pc \in {"update", "bind", "clear", "draw", "unbind", "clear_screen", "composite",
             "swap_buffers"}
  \/ FrameCompleted

\* C16: in every iteration each controller's process_input is called once,
\* WASD first and Arrows second, after the Escape and F1..F10 checks and
\* before scene.update; both controllers and scene.update are passed the dt
\* that the iteration's frame_limiter.start returned.
C16_ControllersOncePerFrame ==
  /\ pc \in {"make_current", "poll_events", "process_events", "process_input"} =>
       /\ inputLog = <<>>
       /\ dtSeen.controllers = <<>>
       /\ dtSeen.update = <<>>
  /\ AfterInput =>
       /\ inputLog = <<"Escape", "F1..F10", "WASD", "Arrows">>
       /\ Len(dtSeen.start) = 1
       /\ dtSeen.controllers = <<dtSeen.start[1], dtSeen.start[1]>>
  /\ pc = "update" => dtSeen.update = <<>>
  /\ (AfterInput /\ pc # "update") => dtSeen.update = dtSeen.start

C16_Witness ==
  /\ pc = "bind"
  /\ frameNo = 2
  /\ dtSeen.start = <<TicksPerSecond>>
  /\ dtSeen.update = <<TicksPerSecond>>

\* C17: once the close flag is set Game::run returns, after at most the rest
\* of the iteration in progress: the flag is tested only at the head of the
\* loop, and the iteration in which it was set still runs its update, draw,
\* swap and idle-wait.
C17_CloseEndsRun ==
  /\ should_close ~> (pc = "done")
  /\ [][/\ (pc # "done" /\ pc' = "done") => pc = "while"
        /\ should_close => frameNo' = frameNo
        /\ (should_close /\ pc \notin {"while", "done"}) => pc' # "done"]_vars
  /\ [](pc = "done" => (calls.update = 1 /\ calls.draw = 1 /\ calls.swap = 1
                        /\ ~FrameLimiterStop(frame_limiter)))

C17_Witness ==
  /\ pc = "done"
  /\ frameNo = 2
  /\ escFrame = 2
  /\ calls.swap = 1

\* C18: a reported error never stops the loop: error_callback prints the
\* count and adds one to it (the n-th error prints n-1 and leaves n), and it
\* changes neither the close flag nor anything else of the game.
C18_ErrorsOnlyCounted ==
  /\ [](printed = error_count - 1)
  /\ [][error_count' # error_count =>
          /\ error_count' = error_count + 1
          /\ printed' = error_count
          /\ UNCHANGED <<pc, should_close, events, settings, frame_buffer, viewport,
                         post_proc_effect, uniform_effect, frame_limiter, dt, frameNo>>]_vars

C18_Witness ==
  /\ error_count = 2
  /\ printed = 1
  /\ pc = "draw"
  /\ frameNo = 2
  /\ ~should_close

\* C19: the effect selector starts at 0 and is always in 0..10; once one of
\* F1..F10 has been read as pressed it is in 1..10 and never 0 again.
C19_SelectorRange ==
  /\ post_proc_effect \in 0..NumFKeys
  /\ frameNo = 0 => post_proc_effect = 0
  /\ fPressed => post_proc_effect \in 1..NumFKeys
  /\ ~fPressed => post_proc_effect = 0

C19_Witness ==
  /\ fPressed
  /\ pc = "while"
  /\ frameNo = 2
  /\ uniform_effect = 10
  /\ lastCall.swap = 2

====
